---- MODULE Spec2Model ----
(***************************************************************************)
(* Model of main_app.py (JMM NDA dashboard): the quality-annotation parser *)
(* parse_spelling_errors, the band function categorize_quality_score and   *)
(* the dashboard step that scores one row of the uploaded table, and the   *)
(* sessions that share shared_dashboard_data.json through                  *)
(* save_data_to_cloud and load_shared_data.                                *)
(*                                                                         *)
(* Annotation texts are TLA+ strings; TLC evaluates Len, \o and SubSeq on  *)
(* strings, so marker counting and the excerpt patterns are computed       *)
(* character by character, as the regular expressions of the source do.    *)
(***************************************************************************)
EXTENDS Integers, Sequences, FiniteSets, TLC

VARIABLES
    has_column,   \* 'Spelling_Errors' in df.columns for the uploaded table
    cell,         \* the row's Spelling_Errors cell: None, NaN or a string
    report,       \* quality_metrics of the row: what parse_spelling_errors returned
    row,          \* the columns the dashboard derived for the row
    prev_report,  \* history: report of the row before the latest re-upload
    prev_row,     \* history: derived columns of the row before the latest re-upload
    uploads,      \* number of uploads so far
    shared_data,  \* st.session_state.shared_data, NoPackage while the key is absent
    shared_file,  \* content of shared_dashboard_data.json, NoPackage while there is no file
    pc,           \* "start": uploaded_data is None; "uploaded": table stored, not yet
                  \* scored; "scored": the dashboard derived the row's columns
    session_state,\* several sessions: each session's st.session_state
    clock,        \* several sessions: the last value datetime.now() returned
    writer,       \* several sessions: each session's place in the with-block of
                  \* save_data_to_cloud: "idle", "open" or "clobbered"
    called,       \* history: the session and function of the latest call
    returned      \* history: what the latest call returned, Running before it returns

vars ==
    <<has_column, cell, report, row, prev_report, prev_row, uploads,
      shared_data, shared_file, pc, session_state, clock, writer, called, returned>>

\* The state of the scoring dashboard of one session.
dashboard_vars ==
    <<has_column, cell, report, row, prev_report, prev_row, uploads, shared_data, pc>>

\* The state of the sessions that share the file.
sessions_vars == <<session_state, clock, writer, called, returned>>

(***************************************************************************)
(* Bounds of the model.                                                    *)
(***************************************************************************)
MaxPieces == 2     \* pieces concatenated into a short free-form text
MaxReps == 30      \* length of the leading run of TYPOS blocks
MaxTail == 4       \* length of the trailing run of blocks of a second category
MaxMixed == 5      \* longest TYPOS run that any second category may follow
MaxUploads == 2    \* uploads of the table in one behaviour
MaxBlocks == 2     \* blocks of a semicolon-delimited annotation with distinct excerpts
NumSessions == 2   \* sessions that share shared_dashboard_data.json
MaxClock == 4      \* values datetime.now() returns in one behaviour

(***************************************************************************)
(* Python and pandas helpers.                                              *)
(***************************************************************************)
PyMax(a, b) == IF a >= b THEN a ELSE b
PyMin(a, b) == IF a <= b THEN a ELSE b

\* Cell values: None, float NaN, or a str with its characters.
NoneCell == [kind |-> "None", s |-> ""]
NaNCell == [kind |-> "NaN", s |-> ""]
StrCell(s) == [kind |-> "str", s |-> s]

\* pd.isna(x): true of None and NaN, false of every str.
pd_isna(x) == x.kind \in {"None", "NaN"}

\* str(x) of a str cell is the string itself.
str(x) == x.s

CharAt(text, i) == SubSeq(text, i, i)

\* The characters \s matches and str.strip() removes.
Whitespace == {" ", "\t", "\n", "\r", "\f"}

\* str.strip(): drop leading and trailing whitespace.
RECURSIVE lstrip(_)
lstrip(s) ==
    IF Len(s) > 0 /\ CharAt(s, 1) \in Whitespace
    THEN lstrip(SubSeq(s, 2, Len(s)))
    ELSE s

RECURSIVE rstrip(_)
rstrip(s) ==
    IF Len(s) > 0 /\ CharAt(s, Len(s)) \in Whitespace
    THEN rstrip(SubSeq(s, 1, Len(s) - 1))
    ELSE s

strip(s) == rstrip(lstrip(s))

(***************************************************************************)
(* len(re.findall(r'<literal>', text)): the leftmost match at or after the *)
(* scan position is taken, it consumes the literal, and the scan resumes   *)
(* right after it.                                                         *)
(***************************************************************************)
\* Mutant: the pattern is written without its closing colon.
LiteralHits_no_colon(literal, text) ==
    {i \in 1..(Len(text) - Len(literal) + 2) :
        SubSeq(text, i, i + Len(literal) - 2) = SubSeq(literal, 1, Len(literal) - 1)}

\* The indices at which the literal occurs in the text.
LiteralHits(literal, text) ==
    {i \in 1..(Len(text) - Len(literal) + 1) :
        SubSeq(text, i, i + Len(literal) - 1) = literal}

\* Number of matches the scan takes from pos on.
RECURSIVE ScanCount(_, _, _)
ScanCount(hits, width, pos) ==
    LET later == {h \in hits : h >= pos}
    IN  IF later = {} THEN 0
        ELSE 1 + ScanCount(hits, width, (CHOOSE h \in later : \A g \in later : h <= g) + width)

findall_count(literal, text) == ScanCount(LiteralHits(literal, text), Len(literal), 1)

(***************************************************************************)
(* re.findall(r'([^;]+)\s*\(<TYPE>:[^)]+\)', text): the group-1 strings of *)
(* the successive leftmost matches.                                        *)
(***************************************************************************)
\* Keys of the patterns dict, in insertion order.
error_types ==
    <<"TYPOS", "PUNCTUATION", "GRAMMAR", "TYPOGRAPHY",
      "REDUNDANCY", "CASING", "MISC", "REPETITIONS_STYLE">>

\* Index of the first ch at or after from, 0 when there is none.
RECURSIVE IndexOf(_, _, _)
IndexOf(ch, text, from) ==
    IF from > Len(text) THEN 0
    ELSE IF CharAt(text, from) = ch THEN from
         ELSE IndexOf(ch, text, from + 1)

\* Mutant: the detail is [^)]* and may be empty.
BlockAt_empty_detail(error_type, text, p) ==
    LET open == "(" \o error_type \o ":"
        q == p + Len(open)
    IN  IF p < 1 \/ q - 1 > Len(text) \/ SubSeq(text, p, q - 1) # open THEN 0
        ELSE LET c == IndexOf(")", text, q)
             IN  IF c >= q THEN c ELSE 0

\* \(<TYPE>:[^)]+\) anchored at p: index of the closing parenthesis, 0 on no
\* match.  [^)]+ is greedy and stops only at ')' or the end of the text, so
\* the closing parenthesis is the first ')' and at least one character
\* precedes it.
BlockAt(error_type, text, p) ==
    LET open == "(" \o error_type \o ":"
        q == p + Len(open)
    IN  IF p < 1 \/ q - 1 > Len(text) \/ SubSeq(text, p, q - 1) # open THEN 0
        ELSE LET c == IndexOf(")", text, q)
             IN  IF c > q THEN c ELSE 0

\* Length of the whitespace run that starts at index from.
RECURSIVE SpaceRun(_, _)
SpaceRun(text, from) ==
    IF from <= Len(text) /\ CharAt(text, from) \in Whitespace
    THEN 1 + SpaceRun(text, from + 1)
    ELSE 0

\* \s*\(<TYPE>:[^)]+\) right after index e: \s* tries the longest run first.
\* Index of the closing parenthesis, 0 on no match.
AfterGroup(error_type, text, e) ==
    IF e >= Len(text) \/ CharAt(text, e + 1) \notin Whitespace \cup {"("} THEN 0
    ELSE LET w == SpaceRun(text, e + 1)
             ks == {k \in 0..w : BlockAt(error_type, text, e + k + 1) # 0}
         IN  IF ks = {} THEN 0
             ELSE BlockAt(error_type, text,
                          e + (CHOOSE k \in ks : \A j \in ks : j <= k) + 1)

\* Backtracking of the greedy group ([^;]+) that starts at s and has taken
\* text[s..e]: give characters back, one at a time, until the rest of the
\* pattern matches.  <<e, c>>: group 1 is text[s..e] and the match ends at c;
\* <<0, 0>> when no character is left to give back.
RECURSIVE GiveBack(_, _, _, _)
GiveBack(error_type, text, s, e) ==
    IF e < s THEN <<0, 0>>
    ELSE LET c == AfterGroup(error_type, text, e)
         IN  IF c # 0 THEN <<e, c>> ELSE GiveBack(error_type, text, s, e - 1)

\* Last index of the run without ';' that contains index s.
RunEnd(text, s) ==
    LET semi == IndexOf(";", text, s)
    IN  IF semi = 0 THEN Len(text) ELSE semi - 1

\* The match that starts at index s: [^;]+ first takes the whole run
\* without ';', then backtracks.
MatchAt(error_type, text, s) ==
    IF CharAt(text, s) = ";" THEN <<0, 0>>
    ELSE GiveBack(error_type, text, s, RunEnd(text, s))

\* Mutant: after a match the scan resumes one character after its start,
\* so matches overlap.
RECURSIVE ScanGroups_overlap(_, _, _)
ScanGroups_overlap(error_type, text, pos) ==
    IF pos > Len(text) THEN <<>>
    ELSE LET m == MatchAt(error_type, text, pos)
         IN  IF m[1] = 0
             THEN ScanGroups_overlap(error_type, text,
                    IF CharAt(text, pos) = ";" THEN pos + 1 ELSE RunEnd(text, pos) + 1)
             ELSE <<SubSeq(text, pos, m[1])>>
                  \o ScanGroups_overlap(error_type, text, pos + 1)

\* The scan of findall from pos.  When no match starts at pos, none starts
\* at a later index of the same run either (such a start has the same
\* candidates for the end of the group, or fewer), so the scan resumes
\* after the run.
RECURSIVE ScanGroups(_, _, _)
ScanGroups(error_type, text, pos) ==
    IF pos > Len(text) THEN <<>>
    ELSE LET m == MatchAt(error_type, text, pos)
         IN  IF m[1] = 0
             THEN ScanGroups(error_type, text,
                    IF CharAt(text, pos) = ";" THEN pos + 1 ELSE RunEnd(text, pos) + 1)
             ELSE <<SubSeq(text, pos, m[1])>>
                  \o ScanGroups(error_type, text, m[2] + 1)

\* re.findall(pattern, error_text): the group-1 strings.  Every match
\* contains the literal "(<TYPE>:", so a text without it has no match.
findall_groups(error_type, text) ==
    IF LiteralHits("(" \o error_type \o ":", text) = {} THEN <<>>
    ELSE ScanGroups(error_type, text, 1)

\* Mutant: the match is stored without strip().
IssuesOfType_unstripped(error_type, text) ==
    LET matches == findall_groups(error_type, text)
    IN  [i \in 1..Len(matches) |-> [type |-> error_type, text |-> matches[i]]]

\* The inner loop: one issue_details entry per match, stripped.
IssuesOfType(error_type, text) ==
    LET matches == findall_groups(error_type, text)
    IN  [i \in 1..Len(matches) |-> [type |-> error_type, text |-> strip(matches[i])]]

\* Mutant: each pattern's entries are put in front of the list.
RECURSIVE IssueDetails_reversed(_, _)
IssueDetails_reversed(text, k) ==
    IF k = 0 THEN <<>>
    ELSE IssuesOfType(error_types[k], text) \o IssueDetails_reversed(text, k - 1)

\* The outer loop over patterns.items(), first k patterns.
RECURSIVE IssueDetails(_, _)
IssueDetails(text, k) ==
    IF k = 0 THEN <<>>
    ELSE IssueDetails(text, k - 1) \o IssuesOfType(error_types[k], text)

(***************************************************************************)
(* parse_spelling_errors and categorize_quality_score.                     *)
(***************************************************************************)
\* Mutant: an absent annotation scores 0 instead of 100.
EmptyReport_zero_score ==
    [total_issues |-> 0, typos |-> 0, punctuation |-> 0, grammar |-> 0,
     typography |-> 0, redundancy |-> 0, casing |-> 0, misc |-> 0,
     quality_score |-> 0, issue_details |-> <<>>]

\* The report returned for an absent or empty cell.
EmptyReport ==
    [total_issues |-> 0, typos |-> 0, punctuation |-> 0, grammar |-> 0,
     typography |-> 0, redundancy |-> 0, casing |-> 0, misc |-> 0,
     quality_score |-> 100, issue_details |-> <<>>]

\* The guard of the early return.
IsEmptyInput(spelling_text) ==
    pd_isna(spelling_text)
    \/ (spelling_text.kind = "str" /\ spelling_text.s = "")
    \/ spelling_text.kind = "None"

\* Mutant: the score is taken after the fold, RepetitionStyle weighing as Miscellaneous.
quality_score_folded(typos, grammar, punctuation, typography, redundancy, casing, misc, repetitions) ==
    PyMax(0, PyMin(100,
        100 - typos * 5 - grammar * 4 - punctuation * 2 - typography * 1
            - redundancy * 2 - casing * 2 - (misc + repetitions) * 3))

\* Mutant: the lower clamp is missing.
quality_score_unclamped(typos, grammar, punctuation, typography, redundancy, casing, misc, repetitions) ==
    PyMin(100,
        100 - typos * 5 - grammar * 4 - punctuation * 2 - typography * 1
            - redundancy * 2 - casing * 2 - misc * 3 - repetitions * 2)

\* Mutant: the first deduction is added instead of subtracted.
quality_score_sign(typos, grammar, punctuation, typography, redundancy, casing, misc, repetitions) ==
    PyMax(0, PyMin(100,
        100 + typos * 5 - grammar * 4 - punctuation * 2 - typography * 1
            - redundancy * 2 - casing * 2 - misc * 3 - repetitions * 2))

\* Mutant: the score is computed from the seven reported counts' own
\* categories only; the repetitions deduction is missing.
quality_score_no_repetitions(typos, grammar, punctuation, typography, redundancy, casing, misc, repetitions) ==
    PyMax(0, PyMin(100,
        100 - typos * 5 - grammar * 4 - punctuation * 2 - typography * 1
            - redundancy * 2 - casing * 2 - misc * 3))

\* quality_score = 100, the eight deductions, then the clamp.
quality_score(typos, grammar, punctuation, typography, redundancy, casing, misc, repetitions) ==
    PyMax(0, PyMin(100,
        100 - typos * 5 - grammar * 4 - punctuation * 2 - typography * 1
            - redundancy * 2 - casing * 2 - misc * 3 - repetitions * 2))

\* Mutant: the sum leaves out the repetitions count.
total_issues_seven(typos, punctuation, grammar, typography, redundancy, casing, misc, repetitions) ==
    typos + punctuation + grammar + typography + redundancy + casing + misc

\* total_issues: the sum of the eight counts.
total_issues(typos, punctuation, grammar, typography, redundancy, casing, misc, repetitions) ==
    typos + punctuation + grammar + typography + redundancy + casing + misc + repetitions

\* Mutant: the repetitions count is not folded into misc.
MakeReport_unfolded(typos, punctuation, grammar, typography, redundancy, casing, misc, repetitions, issue_details) ==
    [total_issues |->
        total_issues(typos, punctuation, grammar, typography, redundancy, casing, misc, repetitions),
     typos |-> typos,
     punctuation |-> punctuation,
     grammar |-> grammar,
     typography |-> typography,
     redundancy |-> redundancy,
     casing |-> casing,
     misc |-> misc,
     quality_score |->
        quality_score(typos, grammar, punctuation, typography, redundancy, casing, misc, repetitions),
     issue_details |-> issue_details]

\* The returned dict of the non-empty path.
MakeReport(typos, punctuation, grammar, typography, redundancy, casing, misc, repetitions, issue_details) ==
    [total_issues |->
        total_issues(typos, punctuation, grammar, typography, redundancy, casing, misc, repetitions),
     typos |-> typos,
     punctuation |-> punctuation,
     grammar |-> grammar,
     typography |-> typography,
     redundancy |-> redundancy,
     casing |-> casing,
     misc |-> misc + repetitions,
     quality_score |->
        quality_score(typos, grammar, punctuation, typography, redundancy, casing, misc, repetitions),
     issue_details |-> issue_details]

parse_spelling_errors(spelling_text) ==
    IF IsEmptyInput(spelling_text) THEN EmptyReport
    ELSE LET error_text == str(spelling_text)
         IN  MakeReport(
                findall_count("TYPOS:", error_text),
                findall_count("PUNCTUATION:", error_text),
                findall_count("GRAMMAR:", error_text),
                findall_count("TYPOGRAPHY:", error_text),
                findall_count("REDUNDANCY:", error_text),
                findall_count("CASING:", error_text),
                findall_count("MISC:", error_text),
                findall_count("REPETITIONS_STYLE:", error_text),
                IssueDetails(error_text, Len(error_types)))

\* Mutant: the thresholds are exclusive.
categorize_strict(score) ==
    IF score > 90 THEN "Excellent"
    ELSE IF score > 75 THEN "Good"
    ELSE IF score > 60 THEN "Fair"
    ELSE IF score > 40 THEN "Poor"
    ELSE "Very Poor"

\* Mutant: the final else is missing, so a score under 40 gets None.
categorize_no_else(score) ==
    IF score >= 90 THEN "Excellent"
    ELSE IF score >= 75 THEN "Good"
    ELSE IF score >= 60 THEN "Fair"
    ELSE IF score >= 40 THEN "Poor"
    ELSE "None"

categorize_quality_score(score) ==
    IF score >= 90 THEN "Excellent"
    ELSE IF score >= 75 THEN "Good"
    ELSE IF score >= 60 THEN "Fair"
    ELSE IF score >= 40 THEN "Poor"
    ELSE "Very Poor"

(***************************************************************************)
(* The annotation texts the model uploads.                                 *)
(***************************************************************************)
\* Fragments of the annotation format: the eight markers, near misses of a
\* marker, separators and plain words.
Pieces ==
    {"TYPOS:", "PUNCTUATION:", "GRAMMAR:", "TYPOGRAPHY:", "REDUNDANCY:",
     "CASING:", "MISC:", "REPETITIONS_STYLE:",
     "typos:", "TYPOS", ":", "(", ")", ";", " ", "foo"}

\* Every concatenation of at most n pieces.
RECURSIVE PieceTexts(_)
PieceTexts(n) ==
    IF n = 0 THEN {""}
    ELSE LET shorter == PieceTexts(n - 1)
         IN  shorter \cup {t \o p : t \in shorter, p \in Pieces}

\* One well-formed block of the annotation format.
Block(error_type) == "x (" \o error_type \o ":y)"

\* n blocks of one category, each after the first preceded by "; ".
RECURSIVE BlockRun(_, _, _)
BlockRun(text, error_type, n) ==
    IF n = 0 THEN text
    ELSE BlockRun(
            (IF text = "" THEN "" ELSE text \o "; ") \o Block(error_type),
            error_type, n - 1)

\* A run of TYPOS blocks followed by a run of blocks of a second category:
\* any second category after a short run, TYPOGRAPHY (weight 1) after any run,
\* so that every score from 100 down to 0 and below is produced.
RunTexts ==
    {BlockRun(BlockRun("", "TYPOS", rt[1]), error_types[rt[2]], rt[3]) :
        rt \in {x \in (0..MaxReps) \X (1..Len(error_types)) \X (0..MaxTail) :
                    x[1] <= MaxMixed \/ error_types[x[2]] = "TYPOGRAPHY"}}

\* An annotation as the external checker writes it.
ScenarioText == "teh cat (TYPOS:spelling); bad grammer (GRAMMAR:agreement)"

\* A GRAMMAR block before two TYPOS blocks.
ShuffledText ==
    "bad grammer (GRAMMAR:agreement); recieve (TYPOS:spelling); teh cat (TYPOS:spelling)"

\* Well-formed blocks with distinct excerpts, one or two of every category.
ExcerptBlocks ==
    {"teh cat (TYPOS:spelling)", "recieve (TYPOS:spelling)",
     "its (PUNCTUATION:apostrophe)", "bad grammer (GRAMMAR:agreement)",
     "a  b (TYPOGRAPHY:double space)", "free gift (REDUNDANCY:pleonasm)",
     "paris (CASING:proper noun)", "etc (MISC:vague)",
     "and and (REPETITIONS_STYLE:repeated)"}

\* Every annotation of at most n such blocks, joined by "; ".
RECURSIVE DelimitedTexts(_)
DelimitedTexts(n) ==
    IF n = 0 THEN {""}
    ELSE LET shorter == DelimitedTexts(n - 1)
         IN  shorter \cup {(IF t = "" THEN "" ELSE t \o "; ") \o b :
                              t \in shorter, b \in ExcerptBlocks}

\* Malformed or partially matching annotations: a marker without
\* parentheses, an unclosed block, an empty block, a block without an
\* excerpt before it, a lowercase marker, alone or beside a well-formed block.
MalformedTexts ==
    {"foo TYPOS:bar", "foo (TYPOS:bar", "foo (TYPOS:)", "(TYPOS:bar)",
     "foo (typos:bar)", "foo )TYPOS:bar(", "foo (GRAMMAR:",
     "teh cat (TYPOS:spelling); foo (GRAMMAR:bar",
     "foo (MISC:); teh cat (TYPOS:spelling)",
     "(GRAMMAR:bar);(TYPOS:bar)",
     "teh cat (TYPOS:spelling) recieve (TYPOS:spelling)",
     "foo (TYPOS:); foo (TYPOS:bar"}

Cells ==
    {NoneCell, NaNCell}
    \cup {StrCell(t) :
            t \in PieceTexts(MaxPieces) \cup RunTexts
                         \cup {ScenarioText, ShuffledText}
                  \cup DelimitedTexts(MaxBlocks) \cup MalformedTexts}

(***************************************************************************)
(* The dashboard: upload of a table, then the scoring of its row.          *)
(***************************************************************************)
NoReport == [none |-> TRUE]
NoRow == [none |-> TRUE]

\* One more block, as the external checker appends it to an annotation.
AppendedBlock == "foo (TYPOS:bar)"

NoPackage == [none |-> TRUE]

\* df.to_json(orient='records'): None and NaN cells are both written as null.
to_json(has, c) ==
    IF has
    THEN [has_column |-> TRUE,
          cell |-> IF pd_isna(c) THEN [kind |-> "null", s |-> ""] ELSE c]
    ELSE [has_column |-> FALSE]

\* The data_package of save_data_to_cloud; the upload counter stands for
\* datetime.now().
data_package(has, c, now) ==
    [upload_time |-> now, data |-> to_json(has, c), last_updated_by |-> "Admin"]

Sessions == 1..NumSessions

\* Python's None.
None == [none |-> TRUE]

\* The key is not in st.session_state.
Absent == [absent |-> TRUE]

\* Content of the file that json.load rejects: the file as open(..., 'w')
\* leaves it, or the bytes of two writers mixed.
Torn == [torn |-> TRUE]

\* No call yet; a call that has not returned.
NoCall == <<0, "">>
Running == [running |-> TRUE]

\* The return values True and False of save_data_to_cloud.
True == [bool |-> TRUE]
False == [bool |-> FALSE]

\* st.session_state of a session after the initialisation block.
FreshSession ==
    [uploaded_data |-> None, shared_data |-> Absent,
     last_upload_time |-> Absent, last_updated_by |-> Absent]

\* Session state before any upload: uploaded_data is None.
Init ==
    /\ has_column = FALSE
    /\ cell = NoneCell
    /\ report = NoReport
    /\ row = NoRow
    /\ prev_report = NoReport
    /\ prev_row = NoRow
    /\ uploads = 0
    /\ shared_data = NoPackage
    /\ shared_file = NoPackage
    /\ pc = "start"
    /\ session_state = [s \in Sessions |-> FreshSession]
    /\ clock = 0
    /\ writer = [s \in Sessions |-> "idle"]
    /\ called = NoCall
    /\ returned = None

\* The admin panel's upload: the table is stored in the session and
\* save_data_to_cloud caches the package and writes it to the shared file.
StoreUpload(has, c) ==
    /\ uploads < MaxUploads
    /\ has_column' = has
    /\ cell' = c
    /\ uploads' = uploads + 1
    /\ shared_data' = data_package(has, c, uploads + 1)
    /\ shared_file' = data_package(has, c, uploads + 1)
    /\ report' = NoReport
    /\ row' = NoRow
    /\ pc' = "uploaded"
    /\ UNCHANGED sessions_vars

\* The first upload of the session: any table.
UploadFile ==
    /\ pc = "start"
    /\ \E has \in BOOLEAN :
        \E c \in (IF has THEN Cells ELSE {NoneCell}) : StoreUpload(has, c)
    /\ UNCHANGED <<prev_report, prev_row>>

\* The f-string of Issue_Summary.
Issue_Summary(Typos_Count, Grammar_Issues, Punctuation_Issues, Total_Issues) ==
    IF Total_Issues > 0
    THEN "Typos: " \o ToString(Typos_Count) \o ", Grammar: " \o ToString(Grammar_Issues)
         \o ", Punctuation: " \o ToString(Punctuation_Issues)
    ELSE "No issues"

\* The columns derived from quality_metrics.
ScoredRow(x) ==
    [Quality_Score |-> x.quality_score,
     Total_Issues |-> x.total_issues,
     Typos_Count |-> x.typos,
     Grammar_Issues |-> x.grammar,
     Punctuation_Issues |-> x.punctuation,
     Typography_Issues |-> x.typography,
     Quality_Category |-> categorize_quality_score(x.quality_score),
     Issue_Summary |-> Issue_Summary(x.typos, x.grammar, x.punctuation, x.total_issues)]

\* The columns set when the table has no Spelling_Errors column.
FallbackRow ==
    [Quality_Score |-> 100, Total_Issues |-> 0, Quality_Category |-> "No Data"]

\* if 'Spelling_Errors' in df.columns: parse the cell, derive the columns.
ProcessSpellingQuality ==
    /\ pc = "uploaded"
    /\ has_column
    /\ report' = parse_spelling_errors(cell)
    /\ row' = ScoredRow(report')
    /\ pc' = "scored"
    /\ UNCHANGED <<has_column, cell, prev_report, prev_row, uploads, shared_data, shared_file>>
    /\ UNCHANGED sessions_vars

\* else: the fallback columns.
FallbackNoSpellingData ==
    /\ pc = "uploaded"
    /\ ~has_column
    /\ report' = NoReport
    /\ row' = FallbackRow
    /\ pc' = "scored"
    /\ UNCHANGED <<has_column, cell, prev_report, prev_row, uploads, shared_data, shared_file>>
    /\ UNCHANGED sessions_vars

\* A new upload whose annotation is the old one with one more block
\* appended, directly or after the separator.
UploadAppended ==
    /\ pc = "scored"
    /\ has_column
    /\ cell.kind = "str"
    /\ \E sep \in {"", "; "} :
        StoreUpload(TRUE, StrCell(str(cell) \o sep \o AppendedBlock))
    /\ prev_report' = report
    /\ prev_row' = row

\* A new upload of a table that has no Spelling_Errors column.
UploadWithoutColumn ==
    /\ pc = "scored"
    /\ has_column
    /\ StoreUpload(FALSE, NoneCell)
    /\ prev_report' = report
    /\ prev_row' = row

Next ==
    \/ UploadFile
    \/ ProcessSpellingQuality
    \/ FallbackNoSpellingData
    \/ UploadAppended
    \/ UploadWithoutColumn

Spec == Init /\ [][Next]_vars

(***************************************************************************)
(* Several sessions and the file shared_dashboard_data.json.  A session    *)
(* runs its script sequentially; the sessions interleave, also between     *)
(* open(..., 'w') and json.dump of save_data_to_cloud.                     *)
(***************************************************************************)
\* The tables the sessions upload.
SharedTables ==
    {[has_column |-> TRUE, cell |-> StrCell(ScenarioText)],
     [has_column |-> FALSE, cell |-> NoneCell]}

\* pd.read_json(package['data'], orient='records'): null is read back as NaN.
read_json(data) ==
    IF data.has_column
    THEN [has_column |-> TRUE,
          cell |-> IF data.cell.kind = "null" THEN NaNCell ELSE data.cell]
    ELSE [has_column |-> FALSE, cell |-> NoneCell]

\* Mutant: the file is read whenever it holds a package; the cache is only
\* the fallback.
load_shared_data_rereads(state, file) ==
    IF file # NoPackage /\ file # Torn
    THEN [state |-> [state EXCEPT !.shared_data = file], value |-> file]
    ELSE IF state.shared_data # Absent
    THEN [state |-> state, value |-> state.shared_data]
    ELSE [state |-> state, value |-> None]

\* load_shared_data on a session's state and the file: the session state
\* it leaves and the value it returns.
load_shared_data(state, file) ==
    IF state.shared_data # Absent
    THEN [state |-> state, value |-> state.shared_data]
    ELSE IF file # NoPackage /\ file # Torn
    THEN [state |-> [state EXCEPT !.shared_data = file], value |-> file]
    ELSE [state |-> state, value |-> None]

\* load_data_from_package for a package that is not None.
load_data_from_package(state, package) ==
    [state EXCEPT !.uploaded_data = read_json(package.data),
                  !.last_upload_time = package.upload_time,
                  !.last_updated_by = package.last_updated_by]

\* The other sessions' open files are written over.
Clobber(s) ==
    [t \in Sessions |-> IF t # s /\ writer[t] # "idle" THEN "clobbered" ELSE writer[t]]

\* save_data_to_cloud with uploaded data, up to the open of the file: the
\* package is cached, the file is truncated.
OpenSharedFile(s, state, now) ==
    /\ session_state' = [session_state EXCEPT ![s] =
            [state EXCEPT !.shared_data =
                data_package(state.uploaded_data.has_column, state.uploaded_data.cell, now)]]
    /\ clock' = now
    /\ shared_file' = Torn
    /\ writer' = [Clobber(s) EXCEPT ![s] = "open"]
    /\ called' = <<s, "save_data_to_cloud">>
    /\ returned' = Running

\* The admin panel's upload in session s: the table is stored and
\* save_data_to_cloud is called.
UploadInSession(s) ==
    /\ writer[s] = "idle"
    /\ clock + 2 <= MaxClock
    /\ \E table \in SharedTables :
        OpenSharedFile(s,
            [session_state[s] EXCEPT !.uploaded_data = table,
                                     !.last_upload_time = clock + 1],
            clock + 2)
    /\ UNCHANGED dashboard_vars

\* A call of save_data_to_cloud in session s, whatever the session holds.
CallSaveDataToCloud(s) ==
    /\ writer[s] = "idle"
    /\ IF session_state[s].uploaded_data # None
       THEN /\ clock + 1 <= MaxClock
            /\ OpenSharedFile(s, session_state[s], clock + 1)
       ELSE /\ called' = <<s, "save_data_to_cloud">>
            /\ returned' = False
            /\ UNCHANGED <<session_state, clock, shared_file, writer>>
    /\ UNCHANGED dashboard_vars

\* json.dump and the end of the with-block: the file holds the package,
\* or mixed bytes when another session wrote to it meanwhile; return True.
DumpPackage(s) ==
    /\ writer[s] # "idle"
    /\ \E content \in (IF writer[s] = "clobbered"
                       THEN {session_state[s].shared_data, Torn}
                       ELSE {session_state[s].shared_data}) :
        shared_file' = content
    /\ writer' = [Clobber(s) EXCEPT ![s] = "idle"]
    /\ called' = <<s, "save_data_to_cloud">>
    /\ returned' = True
    /\ UNCHANGED <<session_state, clock>>
    /\ UNCHANGED dashboard_vars

\* A call of load_shared_data in session s, whatever the session holds.
CallLoadSharedData(s) ==
    /\ writer[s] = "idle"
    /\ LET loaded == load_shared_data(session_state[s], shared_file)
       IN  /\ session_state' = [session_state EXCEPT ![s] = loaded.state]
           /\ returned' = loaded.value
    /\ called' = <<s, "load_shared_data">>
    /\ UNCHANGED <<clock, shared_file, writer>>
    /\ UNCHANGED dashboard_vars

\* The script's load of the shared data in a session without uploaded data.
LoadSharedView(s) ==
    /\ writer[s] = "idle"
    /\ session_state[s].uploaded_data = None
    /\ LET loaded == load_shared_data(session_state[s], shared_file)
       IN  /\ session_state' = [session_state EXCEPT ![s] =
                    IF loaded.value # None
                    THEN load_data_from_package(loaded.state, loaded.value)
                    ELSE loaded.state]
           /\ returned' = loaded.value
    /\ called' = <<s, "load_shared_data">>
    /\ UNCHANGED <<clock, shared_file, writer>>
    /\ UNCHANGED dashboard_vars

NextShared ==
    \E s \in Sessions :
        \/ UploadInSession(s)
        \/ CallSaveDataToCloud(s)
        \/ DumpPackage(s)
        \/ CallLoadSharedData(s)
        \/ LoadSharedView(s)

SpecShared == Init /\ [][NextShared]_vars

(***************************************************************************)
(* Properties.  Occurrences states what the specification calls the count  *)
(* of a marker: the number of places of the text at which the token        *)
(* stands, compared character by character (so case-sensitively).          *)
(***************************************************************************)
Places(token, text) ==
    {i \in 1..Len(text) :
        /\ i + Len(token) - 1 <= Len(text)
        /\ SubSeq(text, i, i + Len(token) - 1) = token}

Occurrences(token, text) == Cardinality(Places(token, text))

\* The eight per-category marker counts of a text, before folding.
PreFold(text) ==
    [typos |-> Occurrences("TYPOS:", text),
     punctuation |-> Occurrences("PUNCTUATION:", text),
     grammar |-> Occurrences("GRAMMAR:", text),
     typography |-> Occurrences("TYPOGRAPHY:", text),
     redundancy |-> Occurrences("REDUNDANCY:", text),
     casing |-> Occurrences("CASING:", text),
     misc |-> Occurrences("MISC:", text),
     repetitionStyle |-> Occurrences("REPETITIONS_STYLE:", text)]

SumOf(n) ==
    n.typos + n.punctuation + n.grammar + n.typography
    + n.redundancy + n.casing + n.misc + n.repetitionStyle

\* The row was scored from its Spelling_Errors cell.
Parsed == pc = "scored" /\ has_column

\* ... and the cell held a non-empty string.
ParsedText == Parsed /\ cell.kind = "str" /\ cell.s # ""

FiveBands == {"Excellent", "Good", "Fair", "Poor", "Very Poor"}

\* C1: for every non-empty annotation text the score is
\* max(0, min(100, 100 - 5*typos - 4*grammar - 3*misc - 2*punctuation
\* - 2*redundancy - 2*casing - 2*repetitionStyle - 1*typography)) over the
\* pre-fold marker counts; one TYPOS and one GRAMMAR marker give 91.
C1_ScoreFormula ==
    ParsedText => \A n \in {PreFold(cell.s)} :
        LET raw == 100 - 5 * n.typos - 4 * n.grammar - 3 * n.misc - 2 * n.punctuation
                   - 2 * n.redundancy - 2 * n.casing - 2 * n.repetitionStyle
                   - 1 * n.typography
        IN  /\ report.quality_score =
                (IF raw < 0 THEN 0 ELSE IF raw > 100 THEN 100 ELSE raw)
            /\ (cell.s = ScenarioText => report.quality_score = 91)

\* C1 witness: 5 TYPOS and 3 GRAMMAR markers, and nothing else, score 63.
C1_Witness ==
    /\ ParsedText
    /\ PreFold(cell.s).typos = 5
    /\ PreFold(cell.s).grammar = 3
    /\ SumOf(PreFold(cell.s)) = 8
    /\ report.quality_score = 63

\* C2: for every input (absent, empty or any text) the score returned is an
\* integer in 0..100; 30 TYPOS markers (raw deduction 150) give exactly 0.
C2_ScoreClamped ==
    Parsed =>
        /\ report.quality_score \in 0..100
        /\ row.Quality_Score \in 0..100
        /\ (cell.kind = "str" /\ Occurrences("TYPOS:", cell.s) = 30
                => report.quality_score = 0)

\* C2 witness: a text of 30 TYPOS markers and no other marker, scored 0.
C2_Witness ==
    /\ ParsedText
    /\ PreFold(cell.s).typos = 30
    /\ SumOf(PreFold(cell.s)) = 30
    /\ report.quality_score = 0

\* C3: a null, absent (NaN) or empty input yields the zeroed report (every
\* count 0, totalIssues 0, score 100, no occurrences) with category
\* Excellent, the same report field for field for each of the three inputs.
C3_EmptyInputReport ==
    (Parsed /\ (cell.kind \in {"None", "NaN"} \/ cell.s = "")) =>
        /\ report =
            [total_issues |-> 0, typos |-> 0, punctuation |-> 0, grammar |-> 0,
             typography |-> 0, redundancy |-> 0, casing |-> 0, misc |-> 0,
             quality_score |-> 100, issue_details |-> <<>>]
        /\ row.Quality_Score = 100
        /\ row.Total_Issues = 0
        /\ row.Quality_Category = "Excellent"

\* C3 witness: a scored row whose cell is NaN.
C3_Witness ==
    /\ Parsed
    /\ cell.kind = "NaN"
    /\ report.quality_score = 100
    /\ report.issue_details = <<>>

\* C4: categorize_quality_score maps a score to its band by inclusive lower
\* thresholds applied top-down: >= 90 Excellent, >= 75 Good, >= 60 Fair,
\* >= 40 Poor, else Very Poor; 89 Good, 90 Excellent, 74 Fair, 75 Good,
\* 59 Poor, 60 Fair, 39 Very Poor, 40 Poor.
C4_Bands ==
    Parsed =>
        LET sc == row.Quality_Score
            cat == row.Quality_Category
        IN  /\ sc \in 90..100 => cat = "Excellent"
            /\ sc \in 75..89 => cat = "Good"
            /\ sc \in 60..74 => cat = "Fair"
            /\ sc \in 40..59 => cat = "Poor"
            /\ sc \in 0..39 => cat = "Very Poor"
            /\ sc = 89 => cat = "Good"
            /\ sc = 90 => cat = "Excellent"
            /\ sc = 74 => cat = "Fair"
            /\ sc = 75 => cat = "Good"
            /\ sc = 59 => cat = "Poor"
            /\ sc = 60 => cat = "Fair"
            /\ sc = 39 => cat = "Very Poor"
            /\ sc = 40 => cat = "Poor"

\* C4 witness: a row scored exactly at a threshold.
C4_Witness ==
    /\ Parsed
    /\ row.Quality_Score = 75
    /\ row.Quality_Category = "Good"

\* C5 as stated: on every path by which the dashboard scores a row, the
\* category is one of the five bands and two records with the same score
\* carry the same category.
C5_Original ==
    pc = "scored" =>
        /\ row.Quality_Category \in FiveBands
        /\ (prev_row # NoRow /\ prev_row.Quality_Score = row.Quality_Score
                => prev_row.Quality_Category = row.Quality_Category)

\* C5 amended: a row scored from its Spelling_Errors cell carries one of the
\* five bands, the same band as any other such row with the same score; a
\* row of a table without that column carries score 100 and the category
\* "No Data".
C5_CategoryOfScore ==
    pc = "scored" =>
        /\ has_column =>
            /\ row.Quality_Category \in FiveBands
            /\ (prev_row # NoRow /\ prev_row.Quality_Score = row.Quality_Score
                    => prev_row.Quality_Category = row.Quality_Category)
        /\ ~has_column =>
            /\ row.Quality_Score = 100
            /\ row.Quality_Category = "No Data"

\* C5 witness: a row scored 100 without the column, after a row scored 100
\* from its cell: the same score, "No Data" against "Excellent".
C5_Witness ==
    /\ pc = "scored"
    /\ ~has_column
    /\ prev_row # NoRow
    /\ prev_row.Quality_Score = 100
    /\ prev_row.Quality_Category = "Excellent"
    /\ row.Quality_Score = 100
    /\ row.Quality_Category = "No Data"

\* C6: for every non-empty text totalIssues is the sum of the eight
\* per-category marker counts taken before folding, and is >= 0.
C6_TotalIsSum ==
    ParsedText =>
        /\ report.total_issues = SumOf(PreFold(cell.s))
        /\ report.total_issues >= 0
        /\ row.Total_Issues = report.total_issues

\* C6 witness: one MISC and one REPETITIONS_STYLE marker, totalIssues 2.
C6_Witness ==
    /\ ParsedText
    /\ PreFold(cell.s).misc = 1
    /\ PreFold(cell.s).repetitionStyle = 1
    /\ report.total_issues = 2

\* C7: the report has no RepetitionStyle count; its Miscellaneous count is
\* the number of MISC: markers plus the number of REPETITIONS_STYLE:
\* markers, and the other six counts are their categories' marker counts.
C7_Folded ==
    ParsedText => \A n \in {PreFold(cell.s)} :
            /\ DOMAIN report =
                {"total_issues", "typos", "punctuation", "grammar", "typography",
                 "redundancy", "casing", "misc", "quality_score", "issue_details"}
            /\ report.misc = n.misc + n.repetitionStyle
            /\ report.typos = n.typos
            /\ report.punctuation = n.punctuation
            /\ report.grammar = n.grammar
            /\ report.typography = n.typography
            /\ report.redundancy = n.redundancy
            /\ report.casing = n.casing

\* C7 witness: REPETITIONS_STYLE markers only, reported as Miscellaneous.
C7_Witness ==
    /\ ParsedText
    /\ PreFold(cell.s).repetitionStyle = 2
    /\ PreFold(cell.s).misc = 0
    /\ report.misc = 2

\* C8: appending one well-formed block "foo (TYPOS:bar)" to an annotation
\* string (the empty string included) never raises the score and never
\* lowers totalIssues.
C8_AppendMonotone ==
    (Parsed /\ prev_report # NoReport) =>
        /\ report.quality_score <= prev_report.quality_score
        /\ report.total_issues >= prev_report.total_issues

\* C8 witness: the block was appended to a scored annotation and the row
\* scored again, five points lower with one more issue.
C8_Witness ==
    /\ Parsed
    /\ prev_report # NoReport
    /\ report.quality_score = prev_report.quality_score - 5
    /\ report.total_issues = prev_report.total_issues + 1

\* C9: each count is the number of exact, case-sensitive occurrences of the
\* category's marker token, every occurrence counting for one category
\* only; a text without any marker (lowercase variants included) has all
\* counts 0, totalIssues 0 and score 100.
C9_MarkerCounts ==
    ParsedText =>
        \A n \in {PreFold(cell.s)} :
        \A places \in {UNION {Places(error_types[j] \o ":", cell.s) : j \in 1..Len(error_types)}} :
            /\ report.typos = n.typos
            /\ report.punctuation = n.punctuation
            /\ report.grammar = n.grammar
            /\ report.typography = n.typography
            /\ report.redundancy = n.redundancy
            /\ report.casing = n.casing
            /\ report.misc - n.repetitionStyle = n.misc
            /\ report.total_issues = Cardinality(places)
            /\ (places = {} =>
                    /\ report.total_issues = 0
                    /\ report.misc = 0
                    /\ report.quality_score = 100)

\* C9 witness: a text with a lowercase typos: and a TYPOS without its colon,
\* no marker, scored 100.
C9_Witness ==
    /\ ParsedText
    /\ Occurrences("typos:", cell.s) = 1
    /\ Occurrences("TYPOS", cell.s) = 1
    /\ SumOf(PreFold(cell.s)) = 0
    /\ report.total_issues = 0
    /\ report.quality_score = 100

(***************************************************************************)
(* Properties of the extracted occurrences.  The definitions below read    *)
(* the annotation format off the text, without the patterns' scan.         *)
(***************************************************************************)
\* The category enumeration of the specification, by marker name.
CategoryOrder ==
    <<"TYPOS", "PUNCTUATION", "GRAMMAR", "TYPOGRAPHY",
      "REDUNDANCY", "CASING", "MISC", "REPETITIONS_STYLE">>

Rank(type) == CHOOSE j \in 1..Len(CategoryOrder) : CategoryOrder[j] = type

Least(S) == CHOOSE x \in S : \A y \in S : x <= y
Greatest(S) == CHOOSE x \in S : \A y \in S : y <= x

\* A parenthesized marker block "(<TYPE>:detail)" of the category stands at
\* index r: the detail is not empty and the block is closed.
ClosedBlockAt(type, text, r) ==
    LET open == "(" \o type \o ":"
        d == r + Len(open)
    IN  /\ r >= 1
        /\ d <= Len(text)
        /\ SubSeq(text, r, d - 1) = open
        /\ SubSeq(text, d, d) # ")"
        /\ \E c \in (d + 1)..Len(text) : SubSeq(text, c, c) = ")"

\* The indices at which a closed block of the category with a detail stands.
ClosedBlocks(type, text) ==
    {r \in Places("(" \o type \o ":", text) : ClosedBlockAt(type, text, r)}

\* The last index up to q that holds no whitespace, 0 when there is none.
RECURSIVE BackPastSpace(_, _)
BackPastSpace(text, q) ==
    IF q >= 1 /\ SubSeq(text, q, q) \in Whitespace
    THEN BackPastSpace(text, q - 1) ELSE q

\* The indices at which the excerpt ends with only whitespace left before
\* index r.
EndsBefore(excerpt, text, r) ==
    {w \in BackPastSpace(text, r - 1)..(r - 1) :
        /\ w - Len(excerpt) >= 0
        /\ SubSeq(text, w - Len(excerpt) + 1, w) = excerpt}

\* The places after index after at which the excerpt sits immediately
\* before one of the blocks.
PlacesBefore(excerpt, text, blocks, after) ==
    UNION {{w - Len(excerpt) + 1 : w \in EndsBefore(excerpt, text, r)} :
                r \in {b \in blocks : b > after}}
        \ (0..after)

\* The entries of the category, from the i-th on, sit before blocks of the
\* category at increasing places after index after.
RECURSIVE AppearInOrder(_, _, _, _, _, _)
AppearInOrder(type, d, text, blocks, i, after) ==
    IF i > Len(d) THEN TRUE
    ELSE IF d[i].type # type THEN AppearInOrder(type, d, text, blocks, i + 1, after)
    ELSE \A later \in {PlacesBefore(d[i].text, text, blocks, after)} :
            /\ later # {}
            /\ \A place \in {Least(later)} :
                    AppearInOrder(type, d, text, blocks, i + 1, place)

\* C11: the occurrences are ordered by category block, in the order Typo,
\* Punctuation, Grammar, Typography, Redundancy, Casing, Miscellaneous,
\* RepetitionStyle, not by document position; within one category they are
\* in their order of appearance in the text.
C11_CategoryBlockOrder ==
    ParsedText =>
        LET d == report.issue_details
        IN  /\ \A i \in 1..(Len(d) - 1) : Rank(d[i].type) <= Rank(d[i + 1].type)
            /\ \A type \in {d[i].type : i \in 1..Len(d)} :
                \A blocks \in {ClosedBlocks(type, cell.s)} :
                    AppearInOrder(type, d, cell.s, blocks, 1, 0)

\* C11 witness: the GRAMMAR block precedes the two TYPOS blocks in the text
\* and follows them in the list; the TYPOS excerpts keep their text order.
C11_Witness ==
    /\ ParsedText
    /\ cell.s = ShuffledText
    /\ report.issue_details =
        <<[type |-> "TYPOS", text |-> "recieve"],
          [type |-> "TYPOS", text |-> "teh cat"],
          [type |-> "GRAMMAR", text |-> "bad grammer"]>>

\* x has no leading and no trailing whitespace.
Trimmed(x) ==
    \/ x = ""
    \/ /\ SubSeq(x, 1, 1) \notin Whitespace
       /\ SubSeq(x, Len(x), Len(x)) \notin Whitespace

\* The text of x without its leading and trailing whitespace.
TrimOf(x) ==
    LET solid == {i \in 1..Len(x) : SubSeq(x, i, i) \notin Whitespace}
    IN  IF solid = {} THEN "" ELSE SubSeq(x, Least(solid), Greatest(solid))

\* The indices at which the segments of the text split at its semicolons start.
SegmentStarts(text) == {1} \cup {p + 1 : p \in Places(";", text)}

\* The segment that starts at index a: up to the next semicolon or the end.
SegmentFrom(text, a) ==
    LET stop == CHOOSE p \in a..(Len(text) + 1) :
                    /\ p = Len(text) + 1 \/ SubSeq(text, p, p) = ";"
                    /\ \A q \in a..(p - 1) : SubSeq(text, q, q) # ";"
    IN  SubSeq(text, a, stop - 1)

\* The segment is one block "excerpt (MARKER:detail)": one pair of
\* parentheses, closing the segment; a category marker and a detail in it;
\* an excerpt before it.
WellFormedSegment(seg) ==
    /\ Cardinality(Places("(", seg)) = 1
    /\ Places(")", seg) = {Len(seg)}
    /\ LET o == Least(Places("(", seg))
           colons == {c \in Places(":", seg) : c > o}
       IN  /\ colons # {}
           /\ \E k \in 1..Len(CategoryOrder) :
                SubSeq(seg, o + 1, Least(colons) - 1) = CategoryOrder[k]
           /\ Least(colons) + 1 <= Len(seg) - 1
           /\ TrimOf(SubSeq(seg, 1, o - 1)) # ""

\* The occurrence a well-formed segment stands for.
EntryOf(seg) ==
    LET o == Least(Places("(", seg))
        colons == {c \in Places(":", seg) : c > o}
    IN  [type |-> SubSeq(seg, o + 1, Least(colons) - 1),
         text |-> TrimOf(SubSeq(seg, 1, o - 1))]

\* A semicolon-delimited annotation of well-formed blocks.
Delimited(text) ==
    \A a \in SegmentStarts(text) :
        \A seg \in {SegmentFrom(text, a)} : WellFormedSegment(seg)

\* C12: every occurrence's excerpt is a semicolon-free, trimmed text
\* segment that sits immediately before a parenthesized marker block of the
\* occurrence's category; in a semicolon-delimited annotation every block
\* "excerpt (MARKER:detail)" yields exactly its own excerpt with its own
\* category.
C12_ExcerptBeforeBlock ==
    ParsedText =>
        LET d == report.issue_details
            text == cell.s
            starts == SegmentStarts(text)
        IN  /\ \A blocks_of \in {[type \in {d[i].type : i \in 1..Len(d)}
                                    |-> ClosedBlocks(type, text)]} :
                \A i \in 1..Len(d) :
                    /\ Places(";", d[i].text) = {}
                    /\ Trimmed(d[i].text)
                    /\ \E r \in blocks_of[d[i].type] : EndsBefore(d[i].text, text, r) # {}
            /\ Delimited(text) =>
                \A blocks \in {[a \in starts |-> EntryOf(SegmentFrom(text, a))]} :
                    /\ Len(d) = Cardinality(starts)
                    /\ \A a \in starts :
                        Cardinality({i \in 1..Len(d) : d[i] = blocks[a]})
                        = Cardinality({b \in starts : blocks[b] = blocks[a]})

\* C12 witness: the scenario annotation, two blocks, each with its excerpt.
C12_Witness ==
    /\ ParsedText
    /\ cell.s = ScenarioText
    /\ Delimited(cell.s)
    /\ report.issue_details =
        <<[type |-> "TYPOS", text |-> "teh cat"],
          [type |-> "GRAMMAR", text |-> "bad grammer"]>>

\* The text matches the excerpt pattern of the category somewhere: a closed
\* block with a detail, and at least one character other than ';' before it.
MatchesPattern(type, text) ==
    \E r \in 2..Len(text) :
        /\ ClosedBlockAt(type, text, r)
        /\ SubSeq(text, r - 1, r - 1) # ";"

ReportKeys ==
    {"total_issues", "typos", "punctuation", "grammar", "typography",
     "redundancy", "casing", "misc", "quality_score", "issue_details"}

\* C13: for every string, malformed or partially matching text included,
\* the parser returns a complete report with all fields set; text that
\* does not match the excerpt pattern of a category adds no occurrence of it.
C13_TotalOnStrings ==
    (Parsed /\ cell.kind = "str") =>
        LET d == report.issue_details
        IN  /\ DOMAIN report = ReportKeys
            /\ \A f \in ReportKeys \ {"issue_details"} : report[f] \in Nat
            /\ DOMAIN d = 1..Len(d)
            /\ \A i \in 1..Len(d) :
                /\ DOMAIN d[i] = {"type", "text"}
                /\ \E k \in 1..Len(CategoryOrder) : d[i].type = CategoryOrder[k]
            /\ \A k \in 1..Len(CategoryOrder) :
                (\A i \in 1..Len(d) : d[i].type # CategoryOrder[k])
                    \/ MatchesPattern(CategoryOrder[k], cell.s)
            /\ row.Quality_Category \in FiveBands

\* C13 witness: an empty block beside an unclosed one: two markers counted,
\* no occurrence, a complete report.
C13_Witness ==
    /\ Parsed
    /\ cell.s = "foo (TYPOS:); foo (TYPOS:bar"
    /\ report.total_issues = 2
    /\ report.quality_score = 90
    /\ report.issue_details = <<>>

\* C14: for every text and category the number of occurrences extracted
\* for the category is at most its marker count, so the occurrences list
\* is never longer than totalIssues.
C14_OccurrencesAtMostMarkers ==
    ParsedText =>
        LET d == report.issue_details
        IN  /\ \A k \in 1..Len(CategoryOrder) :
                LET extracted == Cardinality({i \in 1..Len(d) : d[i].type = CategoryOrder[k]})
                IN  extracted = 0 \/ extracted <= Occurrences(CategoryOrder[k] \o ":", cell.s)
            /\ Len(d) <= report.total_issues

\* C14 witness: two blocks that no semicolon separates: two markers, one
\* occurrence.
C14_Witness ==
    /\ ParsedText
    /\ cell.s = "teh cat (TYPOS:spelling) recieve (TYPOS:spelling)"
    /\ report.total_issues = 2
    /\ Len(report.issue_details) = 1

\* C15: the score is a function of the eight pre-fold counts, not of the
\* seven reported counts: it is the clamped sum over the reported counts
\* with one point given back per REPETITIONS_STYLE: marker, so one MISC:
\* marker gives reported misc 1 and score 97 and one REPETITIONS_STYLE:
\* marker gives reported misc 1 and score 98.
C15_ScoreNotOfReportedCounts ==
    ParsedText =>
        LET text == cell.s
            misc_markers == Occurrences("MISC:", text)
            style_markers == Occurrences("REPETITIONS_STYLE:", text)
            other_markers ==
                Occurrences("TYPOS:", text) + Occurrences("PUNCTUATION:", text)
                + Occurrences("GRAMMAR:", text) + Occurrences("TYPOGRAPHY:", text)
                + Occurrences("REDUNDANCY:", text) + Occurrences("CASING:", text)
            folded == 100 - 5 * report.typos - 4 * report.grammar - 3 * report.misc
                      - 2 * report.punctuation - 2 * report.redundancy
                      - 2 * report.casing - 1 * report.typography
            raw == folded + style_markers
            counts == [f \in ReportKeys \ {"quality_score", "issue_details"} |-> report[f]]
            one_misc == [total_issues |-> 1, typos |-> 0, punctuation |-> 0,
                         grammar |-> 0, typography |-> 0, redundancy |-> 0,
                         casing |-> 0, misc |-> 1]
        IN  /\ report.quality_score =
                (IF raw < 0 THEN 0 ELSE IF raw > 100 THEN 100 ELSE raw)
            /\ (misc_markers = 1 /\ style_markers = 0 /\ other_markers = 0)
                    => (counts = one_misc /\ report.quality_score = 97)
            /\ (style_markers = 1 /\ misc_markers = 0 /\ other_markers = 0)
                    => (counts = one_misc /\ report.quality_score = 98)

\* C15 witness: one REPETITIONS_STYLE: marker, reported as misc 1, scored 98.
C15_Witness ==
    /\ ParsedText
    /\ cell.s = "REPETITIONS_STYLE:"
    /\ report.misc = 1
    /\ report.total_issues = 1
    /\ report.quality_score = 98

\* A package, as against None, Absent and Torn.
IsPackage(x) == "upload_time" \in DOMAIN x

====
